---- MODULE Spec2Model ----
(***************************************************************************)
(* Model of src/utils/Transition.js: the service-worker registration       *)
(* helper (register, registerValidSW, checkValidServiceWorker, unregister) *)
(* and the Transition / CSSTransition components.                          *)
(***************************************************************************)
EXTENDS Integers, Sequences, FiniteSets, TLC

\* ------------------------------------------------------------------ bounds
MaxRegisterCalls == 2
MaxUnregisterCalls == 2
MaxLen == 4

\* ------------------------------------------------- service worker: values
\* config argument of register(): absent, or an object that may carry
\* onSuccess and onUpdate.
NoConfig == [present |-> FALSE, onSuccess |-> FALSE, onUpdate |-> FALSE]
Configs ==
  { NoConfig,
    [present |-> TRUE, onSuccess |-> TRUE, onUpdate |-> TRUE],
    [present |-> TRUE, onSuccess |-> TRUE, onUpdate |-> FALSE],
    [present |-> TRUE, onSuccess |-> FALSE, onUpdate |-> TRUE] }

\* window.location.hostname: a name, or the four octets of a dotted IPv4.
Hostnames ==
  { [name |-> "localhost", octets |-> <<>>],
    [name |-> "example.com", octets |-> <<>>],
    [name |-> "", octets |-> <<127, 0, 0, 1>>],
    [name |-> "", octets |-> <<128, 0, 0, 1>>] }
Origins == {"https://app", "https://cdn"}

\* (?:25[0-5]|2[0-4][0-9]|[01]?[0-9][0-9]?)
OctetMatches(n) == n \in 0..255
isLocalhost(h) ==
  \/ h.name = "localhost"
  \/ h.name = "[::1]"
  \/ /\ Len(h.octets) = 4
     /\ h.octets[1] = 127
     /\ \A i \in 2..4 : OctetMatches(h.octets[i])

\* response.headers.get('content-type'): null, or a string, written as the
\* sequence of its segments.
NullHeader == [present |-> FALSE, value |-> <<>>]
Header(v) == [present |-> TRUE, value |-> v]
ContentTypes ==
  { NullHeader,
    Header(<<>>),
    Header(<<"application/", "javascript">>),
    Header(<<"text/", "javascript", "; charset=utf-8">>),
    Header(<<"text/", "html">>) }
Statuses == {200, 404}
NoResponse == [status |-> 0, contentType |-> NullHeader]
Response(status, contentType) == [status |-> status, contentType |-> contentType]
Marker == "javascript"

\* String.prototype.indexOf: the 0-based position of the first occurrence,
\* -1 when there is none.
indexOf(v, m) ==
  IF \E i \in 1..Len(v) : v[i] = m
  THEN (CHOOSE i \in 1..Len(v) : v[i] = m /\ \A j \in 1..(i - 1) : v[j] # m) - 1
  ELSE -1

WorkerStates == {"installing", "installed", "activating", "activated", "redundant"}
NextWorkerStates(s) ==
  CASE s = "installing" -> {"installed", "redundant"}
    [] s = "installed" -> {"activating", "redundant"}
    [] s = "activating" -> {"activated", "redundant"}
    [] s = "activated" -> {"redundant"}
    [] OTHER -> {}

\* registration.installing before any updatefound event: no worker.
NoWorker ==
  [state |-> "none", onstatechange |-> FALSE, controllerWas |-> "unknown",
   onUpdateCalls |-> 0, onSuccessCalls |-> 0]

\* ----------------------------------------------------- transition: values
Inst == {"root", "nested"}

\* Class-name prop strings, written as the sequence of their characters.
ClassStrings ==
  { <<>>,
    <<"a", " ", "b">>,
    <<" ", "b", " ", " ", "c", " ">> }

\* String.prototype.split(' '): the pieces between the separators, empty
\* pieces included.
RECURSIVE split(_)
split(str) ==
  IF str = <<>>
  THEN << <<>> >>
  ELSE LET rest == split(Tail(str))
       IN IF Head(str) = " "
          THEN << <<>> >> \o rest
          ELSE << <<Head(str)>> \o Head(rest) >> \o Tail(rest)

\* Mutant: nothing is filtered out.
filterKeepsAll(pieces) == pieces

\* .filter((s) => s.length)
filter(pieces) == SelectSeq(pieces, LAMBDA t : Len(t) > 0)

\* enterClasses, enterStartClasses, ...: prop.split(' ').filter((s) => s.length)
Classes(str) == filter(split(str))

Range(seq) == {seq[k] : k \in 1..Len(seq)}

VARIABLES
  env,            \* build and browser environment of the page load
  config,         \* the config object the application passes to register()
  registerCalls,  \* number of register() calls made
  loadListeners,  \* number of window 'load' listeners installed
  loadFired,      \* the window load event has been dispatched
  chains,         \* per load listener that ran: its asynchronous continuation
  fetchCalls,     \* number of fetch(swUrl) calls
  apiCalls,       \* number of navigator.serviceWorker.register calls
  onupdatefound,  \* registration.onupdatefound is set
  installingWorker, \* the registration's latest installing worker, with its onstatechange
  controller,     \* navigator.serviceWorker.controller is non-null
  active,         \* an active registration exists (serviceWorker.ready resolves)
  console,        \* what was logged
  reloaded,       \* window.location.reload() was called
  response,       \* what the server answers for swUrl, once it has answered
  ready,          \* navigator.serviceWorker.ready: "pending", "resolved", "rejected"
  unregisterCalls, \* number of unregister() calls made
  unregs,         \* per unregister() call with service workers supported: its continuation
  props,          \* per Transition instance: the props it is given
  nestedKind,     \* the nested instance: "none", "child" (no show) or "explicit"
  nestedPresent,  \* the nested instance is among the root's children
  treeMounted,    \* the component tree has been rendered
  inst            \* per Transition instance: hooks, CSSTransition state, node

swvars == <<env, config, registerCalls, loadListeners, loadFired, chains,
            fetchCalls, apiCalls, onupdatefound, installingWorker, controller, active,
            console, reloaded, response, ready, unregisterCalls, unregs>>

trvars == <<props, nestedKind, nestedPresent, treeMounted, inst>>

vars == <<env, config, registerCalls, loadListeners, loadFired, chains,
          fetchCalls, apiCalls, onupdatefound, installingWorker, controller, active,
          console, reloaded, response, ready, unregisterCalls, unregs,
          props, nestedKind, nestedPresent, treeMounted, inst>>

\* The props of an instance: show is "true", "false" or "undefined"; appear
\* and unmountOnExit are true, or false/absent; six class-name strings.
Props(show, appear, unmountOnExit, classes) ==
  [show |-> show, appear |-> appear, unmountOnExit |-> unmountOnExit,
   enter |-> classes[1], enterStart |-> classes[2], enterEnd |-> classes[3],
   leave |-> classes[4], leaveStart |-> classes[5], leaveEnd |-> classes[6]]

\* The defaults of CSSTransition's parameters: enter = '', enterStart = '', ...
DefaultClasses == <<<<>>, <<>>, <<>>, <<>>, <<>>, <<>>>>

\* React.createContext({ parent: {} }): every field of parent is undefined.
DefaultParent == [show |-> "undefined", isInitialRender |-> FALSE, appear |-> FALSE]

\* An instance that is not mounted. Of a mounted one: the useRef of
\* useIsInitialRender and whether its effect is still to run, the number of
\* renders (0, 1, 2 for more) and what useIsInitialRender returned last; the
\* context value its descendants see; the show and appear handed to
\* CSSTransition; the status, the pending callback
\* and a pending setState({status: UNMOUNTED}) of the transition; the node's
\* class list and inline display; the callbacks of the current direction,
\* and whether a transitionend event was delivered to it.
Blank ==
  [mounted |-> FALSE, isInitialRender |-> TRUE, effectPending |-> FALSE,
   renders |-> 0, returned |-> TRUE, provided |-> DefaultParent,
   show |-> "undefined", appear |-> FALSE,
   status |-> "unmounted", nextCallback |-> "none", pendingUnmount |-> FALSE,
   classList |-> {}, display |-> "", callbacks |-> <<>>, heard |-> FALSE]

\* Nothing rendered.
TRIdle ==
  /\ props = [i \in Inst |-> Props("undefined", FALSE, FALSE, DefaultClasses)]
  /\ nestedKind = "none"
  /\ nestedPresent = FALSE
  /\ treeMounted = FALSE
  /\ inst = [i \in Inst |-> Blank]

\* register() never called: a page whose build is not production.
SWIdle ==
  /\ env = [production |-> FALSE, swSupported |-> FALSE,
            publicOrigin |-> "https://app", pageOrigin |-> "https://app",
            hostname |-> [name |-> "example.com", octets |-> <<>>]]
  /\ config = NoConfig
  /\ registerCalls = 0
  /\ loadListeners = 0
  /\ loadFired = FALSE
  /\ chains = <<>>
  /\ fetchCalls = 0
  /\ apiCalls = 0
  /\ onupdatefound = FALSE
  /\ installingWorker = NoWorker
  /\ active = FALSE
  /\ controller = FALSE
  /\ console = {}
  /\ reloaded = FALSE
  /\ response = NoResponse
  /\ ready = "pending"
  /\ unregisterCalls = 0
  /\ unregs = <<>>

\* ------------------------------------------------------- service worker
SWInit ==
  /\ env \in [production : BOOLEAN, swSupported : BOOLEAN,
              publicOrigin : Origins, pageOrigin : {"https://app"},
              hostname : Hostnames]
  /\ config \in Configs
  /\ registerCalls = 0
  /\ loadListeners = 0
  /\ loadFired = FALSE
  /\ chains = <<>>
  /\ fetchCalls = 0
  /\ apiCalls = 0
  /\ onupdatefound = FALSE
  /\ installingWorker = NoWorker
  /\ active \in BOOLEAN
  /\ controller \in BOOLEAN
  /\ controller => active
  /\ active => env.swSupported
  /\ console = {}
  /\ reloaded = FALSE
  /\ response = NoResponse
  /\ ready = "pending"
  /\ unregisterCalls = 0
  /\ unregs = <<>>
  /\ TRIdle

\* Mutant: the two conditions joined by "or".
QualifiesEither(e) == e.production \/ e.swSupported

\* process.env.NODE_ENV === 'production' && 'serviceWorker' in navigator
Qualifies(e) == e.production /\ e.swSupported

\* Mutant: the origin test is inverted.
CrossOriginInverted(e) == e.publicOrigin = e.pageOrigin

\* publicUrl.origin !== window.location.origin
CrossOrigin(e) == e.publicOrigin # e.pageOrigin

\* The continuation a load listener starts: checkValidServiceWorker issues
\* the fetch, registerValidSW calls navigator.serviceWorker.register.
Chain(pc) == [pc |-> pc]

LoadListener ==
  IF isLocalhost(env.hostname)
  THEN Chain("fetching")
  ELSE Chain("registering")

\* Mutant: the listener's body runs in register() itself.
registerSynchronous ==
  /\ ~reloaded
  /\ registerCalls < MaxRegisterCalls
  /\ registerCalls' = registerCalls + 1
  /\ chains' = IF Qualifies(env) /\ ~CrossOrigin(env)
               THEN Append(chains, LoadListener)
               ELSE chains
  /\ fetchCalls' = fetchCalls +
       Cardinality({n \in (Len(chains) + 1)..Len(chains') : chains'[n].pc = "fetching"})
  /\ apiCalls' = apiCalls +
       Cardinality({n \in (Len(chains) + 1)..Len(chains') : chains'[n].pc = "registering"})
  /\ UNCHANGED <<env, config, loadListeners, loadFired, onupdatefound,
                 installingWorker, controller, active, console, reloaded, response, ready>>
  /\ UNCHANGED <<unregisterCalls, unregs>>
  /\ UNCHANGED trvars

\* register(config)
register ==
  /\ ~reloaded
  /\ registerCalls < MaxRegisterCalls
  /\ registerCalls' = registerCalls + 1
  /\ loadListeners' =
       IF Qualifies(env) /\ ~CrossOrigin(env)
       THEN loadListeners + 1
       ELSE loadListeners
  /\ UNCHANGED <<env, config, loadFired, chains, fetchCalls, apiCalls, onupdatefound,
                 installingWorker, controller, active, console, reloaded, response, ready>>
  /\ UNCHANGED <<unregisterCalls, unregs>>
  /\ UNCHANGED trvars

\* navigator.serviceWorker.ready.then(() => console.log(...)) of the load
\* listener on a loopback host, for the listeners in `who`.
ReadyLog(who) ==
  IF isLocalhost(env.hostname)
  THEN {[level |-> "log", msg |-> "cache-first", who |-> i] : i \in who}
  ELSE {}

\* The window load event: every listener installed so far runs, in order.
WindowLoad ==
  /\ ~reloaded
  /\ ~loadFired
  /\ loadFired' = TRUE
  /\ chains' = [i \in 1..loadListeners |-> LoadListener]
  /\ fetchCalls' = fetchCalls +
       Cardinality({i \in 1..loadListeners : chains'[i].pc = "fetching"})
  /\ apiCalls' = apiCalls +
       Cardinality({i \in 1..loadListeners : chains'[i].pc = "registering"})
  /\ console' = IF ready = "resolved"
                THEN console \cup ReadyLog(1..loadListeners)
                ELSE console
  /\ UNCHANGED <<env, config, registerCalls, loadListeners, onupdatefound, installingWorker,
                 controller, active, reloaded, response, ready>>
  /\ UNCHANGED <<unregisterCalls, unregs>>
  /\ UNCHANGED trvars

\* Mutant: the null check on the header is dropped.
NotFoundOrNotScriptNoNullCheck(status, contentType) ==
  \/ status = 404
  \/ indexOf(contentType.value, Marker) = -1

\* response.status === 404 ||
\*   (contentType != null && contentType.indexOf('javascript') === -1)
NotFoundOrNotScript(status, contentType) ==
  \/ status = 404
  \/ (contentType.present /\ indexOf(contentType.value, Marker) = -1)

\* Mutant: the status is not looked at.
AfterFetchIgnoresStatus(status, contentType) ==
  IF contentType.present /\ indexOf(contentType.value, Marker) = -1
  THEN IF ready = "resolved" THEN "unregistering" ELSE "awaitReady"
  ELSE "registering"

\* fetch(swUrl).then(response => ...): on a missing or non-script worker,
\* navigator.serviceWorker.ready.then(registration =>
\* registration.unregister()...), which runs at once when ready has resolved;
\* otherwise registerValidSW.
AfterFetch(status, contentType) ==
  IF NotFoundOrNotScript(status, contentType)
  THEN IF ready = "resolved" THEN "unregistering" ELSE "awaitReady"
  ELSE "registering"

\* Mutant: registerValidSW is called on both branches.
FetchRespondAlwaysRegisters(i, status, contentType) ==
  /\ ~reloaded
  /\ i \in 1..Len(chains)
  /\ chains[i].pc = "fetching"
  /\ response \in {NoResponse, Response(status, contentType)}
  /\ response' = Response(status, contentType)
  /\ chains' = [chains EXCEPT ![i].pc =
       IF status = 404 \/ (contentType.present /\ indexOf(contentType.value, Marker) = -1)
       THEN (IF ready = "resolved" THEN "unregistering" ELSE "awaitReady")
       ELSE "registering"]
  /\ apiCalls' = apiCalls + 1
  /\ UNCHANGED <<env, config, registerCalls, loadListeners, loadFired, fetchCalls,
                 onupdatefound, installingWorker, controller, active, console, reloaded,
                 ready>>
  /\ UNCHANGED <<unregisterCalls, unregs>>
  /\ UNCHANGED trvars

FetchRespond(i, status, contentType) ==
  /\ ~reloaded
  /\ i \in 1..Len(chains)
  /\ chains[i].pc = "fetching"
  /\ response \in {NoResponse, Response(status, contentType)}
  /\ response' = Response(status, contentType)
  /\ chains' = [chains EXCEPT ![i].pc = AfterFetch(status, contentType)]
  /\ apiCalls' = IF chains'[i].pc = "registering" THEN apiCalls + 1 ELSE apiCalls
  /\ UNCHANGED <<env, config, registerCalls, loadListeners, loadFired, fetchCalls,
                 onupdatefound, installingWorker, controller, active, console, reloaded,
                 ready>>
  /\ UNCHANGED <<unregisterCalls, unregs>>
  /\ UNCHANGED trvars

\* Mutant: the failed fetch is issued again.
FetchFailRetries(i) ==
  /\ ~reloaded
  /\ i \in 1..Len(chains)
  /\ chains[i].pc = "fetching"
  /\ fetchCalls' = fetchCalls + 1
  /\ console' = console \cup {[level |-> "log", msg |-> "offline", who |-> i]}
  /\ UNCHANGED <<env, config, registerCalls, loadListeners, loadFired, chains,
                 apiCalls, onupdatefound, installingWorker, controller, active,
                 reloaded, response, ready>>
  /\ UNCHANGED <<unregisterCalls, unregs>>
  /\ UNCHANGED trvars

\* fetch(swUrl).catch(() => console.log(...))
FetchFail(i) ==
  /\ ~reloaded
  /\ i \in 1..Len(chains)
  /\ chains[i].pc = "fetching"
  /\ chains' = [chains EXCEPT ![i].pc = "offline"]
  /\ console' = console \cup {[level |-> "log", msg |-> "offline", who |-> i]}
  /\ UNCHANGED <<env, config, registerCalls, loadListeners, loadFired, fetchCalls,
                 apiCalls, onupdatefound, installingWorker, controller, active, reloaded,
                 response, ready>>
  /\ UNCHANGED <<unregisterCalls, unregs>>
  /\ UNCHANGED trvars

\* navigator.serviceWorker.ready resolves (an active registration exists):
\* the continuations attached so far run.
ReadyResolved ==
  /\ ~reloaded
  /\ active
  /\ ready = "pending"
  /\ ready' = "resolved"
  /\ chains' = [i \in 1..Len(chains) |->
                 IF chains[i].pc = "awaitReady"
                 THEN [chains[i] EXCEPT !.pc = "unregistering"]
                 ELSE chains[i]]
  /\ console' = console \cup ReadyLog(1..Len(chains))
  /\ UNCHANGED <<env, config, registerCalls, loadListeners, loadFired, fetchCalls,
                 apiCalls, onupdatefound, installingWorker, controller, active, reloaded,
                 response>>
  /\ unregs' = [j \in 1..Len(unregs) |->
                 IF unregs[j].pc = "awaitReady" THEN Chain("unregistering") ELSE unregs[j]]
  /\ UNCHANGED unregisterCalls
  /\ UNCHANGED trvars

\* registration.unregister().then(() => window.location.reload())
UnregisterThenReload(i) ==
  /\ ~reloaded
  /\ i \in 1..Len(chains)
  /\ chains[i].pc = "unregistering"
  /\ chains' = [chains EXCEPT ![i].pc = "reloading"]
  /\ reloaded' = TRUE
  /\ UNCHANGED <<env, config, registerCalls, loadListeners, loadFired, fetchCalls,
                 apiCalls, onupdatefound, installingWorker, controller, active, console,
                 response, ready>>
  /\ UNCHANGED <<unregisterCalls, unregs>>
  /\ UNCHANGED trvars

\* registration.unregister() rejects: no handler is attached on this path.
UnregisterRejected(i) ==
  /\ ~reloaded
  /\ i \in 1..Len(chains)
  /\ chains[i].pc = "unregistering"
  /\ chains' = [chains EXCEPT ![i].pc = "unregisterRejected"]
  /\ UNCHANGED <<env, config, registerCalls, loadListeners, loadFired, fetchCalls,
                 apiCalls, onupdatefound, installingWorker, controller, active, console,
                 reloaded, response, ready>>
  /\ UNCHANGED <<unregisterCalls, unregs>>
  /\ UNCHANGED trvars

\* navigator.serviceWorker.register(swUrl).then(registration => {
\*   registration.onupdatefound = ... })
RegistrationResolved(i) ==
  /\ ~reloaded
  /\ i \in 1..Len(chains)
  /\ chains[i].pc = "registering"
  /\ chains' = [chains EXCEPT ![i].pc = "registered"]
  /\ onupdatefound' = TRUE
  /\ UNCHANGED <<env, config, registerCalls, loadListeners, loadFired, fetchCalls,
                 apiCalls, installingWorker, controller, active, console, reloaded, response, ready>>
  /\ UNCHANGED <<unregisterCalls, unregs>>
  /\ UNCHANGED trvars

\* Mutant: the rejected call is made again.
RegistrationRejectedRetries(i) ==
  /\ ~reloaded
  /\ i \in 1..Len(chains)
  /\ chains[i].pc = "registering"
  /\ apiCalls' = apiCalls + 1
  /\ console' = console \cup
       {[level |-> "error", msg |-> "registration", who |-> i]}
  /\ UNCHANGED <<env, config, registerCalls, loadListeners, loadFired, chains,
                 fetchCalls, onupdatefound, installingWorker, controller, active,
                 reloaded, response, ready>>
  /\ UNCHANGED <<unregisterCalls, unregs>>
  /\ UNCHANGED trvars

\* .catch(error => console.error(...))
RegistrationRejected(i) ==
  /\ ~reloaded
  /\ i \in 1..Len(chains)
  /\ chains[i].pc = "registering"
  /\ chains' = [chains EXCEPT ![i].pc = "registrationFailed"]
  /\ console' = console \cup
       {[level |-> "error", msg |-> "registration", who |-> i]}
  /\ UNCHANGED <<env, config, registerCalls, loadListeners, loadFired, fetchCalls,
                 apiCalls, onupdatefound, installingWorker, controller, active, reloaded, response, ready>>
  /\ UNCHANGED <<unregisterCalls, unregs>>
  /\ UNCHANGED trvars

\* An installing worker: its state, whether its onstatechange is set, the
\* callbacks its handler has invoked, and what navigator.serviceWorker
\* .controller was when the worker became installed.
Worker(state, handler) ==
  [state |-> state, onstatechange |-> handler, controllerWas |-> "unknown",
   onUpdateCalls |-> 0, onSuccessCalls |-> 0]

\* registration.onupdatefound: installingWorker = registration.installing;
\* null returns, otherwise installingWorker.onstatechange is set.
OnUpdateFound(installingIsNull) ==
  IF onupdatefound /\ ~installingIsNull
  THEN Worker("installing", TRUE)
  ELSE Worker("installing", FALSE)

\* The browser finds a new worker for the registration and fires updatefound.
\* registration.installing holds one worker: the next install starts after
\* the previous worker has left the installing state.
UpdateFound(installingIsNull) ==
  /\ ~reloaded
  /\ \E i \in 1..Len(chains) : chains[i].pc \in {"registering", "registered"}
  /\ installingWorker.state # "installing"
  /\ installingWorker' = OnUpdateFound(installingIsNull)
  /\ UNCHANGED <<env, config, registerCalls, loadListeners, loadFired, chains,
                 fetchCalls, apiCalls, onupdatefound, controller, active,
                 console, reloaded, response, ready>>
  /\ UNCHANGED <<unregisterCalls, unregs>>
  /\ UNCHANGED trvars

\* Mutant: the state of the worker is not tested.
OnStateChangeAnyState(w, state) ==
  IF w.onstatechange
  THEN IF controller
       THEN [w EXCEPT !.state = state,
                      !.onUpdateCalls =
                        IF config.present /\ config.onUpdate THEN @ + 1 ELSE @]
       ELSE [w EXCEPT !.state = state,
                      !.onSuccessCalls =
                        IF config.present /\ config.onSuccess THEN @ + 1 ELSE @]
  ELSE [w EXCEPT !.state = state]

\* Mutant: the test of navigator.serviceWorker.controller is inverted.
OnStateChangeInverted(w, state) ==
  IF w.onstatechange /\ state = "installed"
  THEN IF ~controller
       THEN [w EXCEPT !.state = state,
                      !.onUpdateCalls =
                        IF config.present /\ config.onUpdate THEN @ + 1 ELSE @]
       ELSE [w EXCEPT !.state = state,
                      !.onSuccessCalls =
                        IF config.present /\ config.onSuccess THEN @ + 1 ELSE @]
  ELSE [w EXCEPT !.state = state]

\* installingWorker.onstatechange, run with the worker in state `state`.
OnStateChange(w, state) ==
  IF w.onstatechange /\ state = "installed"
  THEN IF controller
       THEN [w EXCEPT !.state = state,
                      !.onUpdateCalls =
                        IF config.present /\ config.onUpdate THEN @ + 1 ELSE @]
       ELSE [w EXCEPT !.state = state,
                      !.onSuccessCalls =
                        IF config.present /\ config.onSuccess THEN @ + 1 ELSE @]
  ELSE [w EXCEPT !.state = state]

OnStateChangeLog(w, state) ==
  IF w.onstatechange /\ state = "installed"
  THEN {[level |-> "log",
         msg |-> IF controller THEN "new-content" ELSE "cached",
         who |-> 0]}
  ELSE {}

\* A worker changes state and its statechange event is dispatched.
StateChange(state) ==
  /\ ~reloaded
  /\ state \in NextWorkerStates(installingWorker.state)
  /\ installingWorker' =
       [OnStateChange(installingWorker, state) EXCEPT !.controllerWas =
          IF state = "installed"
          THEN (IF controller THEN "present" ELSE "absent")
          ELSE @]
  /\ console' = console \cup OnStateChangeLog(installingWorker, state)
  /\ active' = (active \/ state = "activated")
  /\ UNCHANGED <<env, config, registerCalls, loadListeners, loadFired, chains,
                 fetchCalls, apiCalls, onupdatefound, controller, reloaded,
                 response, ready>>
  /\ UNCHANGED <<unregisterCalls, unregs>>
  /\ UNCHANGED trvars

\* An activated worker claims the page: navigator.serviceWorker.controller
\* becomes non-null.
ControllerChange ==
  /\ ~reloaded
  /\ ~controller
  /\ installingWorker.state = "activated"
  /\ controller' = TRUE
  /\ UNCHANGED <<env, config, registerCalls, loadListeners, loadFired, chains,
                 fetchCalls, apiCalls, onupdatefound, installingWorker, active, console,
                 reloaded, response, ready>>
  /\ UNCHANGED <<unregisterCalls, unregs>>
  /\ UNCHANGED trvars

SWNext ==
  \/ register
  \/ WindowLoad
  \/ \E i \in 1..MaxRegisterCalls, s \in Statuses, t \in ContentTypes :
       FetchRespond(i, s, t)
  \/ \E i \in 1..MaxRegisterCalls : FetchFail(i)
  \/ ReadyResolved
  \/ \E i \in 1..MaxRegisterCalls : UnregisterThenReload(i)
  \/ \E i \in 1..MaxRegisterCalls : UnregisterRejected(i)
  \/ \E i \in 1..MaxRegisterCalls : RegistrationResolved(i)
  \/ \E i \in 1..MaxRegisterCalls : RegistrationRejected(i)
  \/ \E n \in BOOLEAN : UpdateFound(n)
  \/ \E s \in WorkerStates : StateChange(s)
  \/ ControllerChange

SWSpec == SWInit /\ [][SWNext]_vars

\* The browser settles its promises: serviceWorker.ready resolves once an
\* active registration exists, and registration.unregister() settles.
SWFairSpec ==
  /\ SWSpec
  /\ WF_vars(ReadyResolved)
  /\ \A i \in 1..MaxRegisterCalls :
       WF_vars(UnregisterThenReload(i) \/ UnregisterRejected(i))

\* ------------------------------------------------------------ unregister
UnregisterError(j) == [level |-> "error", msg |-> "unregister", who |-> j]

\* navigator.serviceWorker.ready.then(registration =>
\* { registration.unregister(); }).catch(error => console.error(...)): where
\* the continuation of an unregister() call stands, given the ready promise.
AfterReady(r) ==
  IF r = "resolved" THEN "unregistering"
  ELSE IF r = "rejected" THEN "caught"
  ELSE "awaitReady"

\* unregister(): nothing without service-worker support.
unregister ==
  /\ unregisterCalls < MaxUnregisterCalls
  /\ unregisterCalls' = unregisterCalls + 1
  /\ unregs' = IF env.swSupported
               THEN Append(unregs, Chain(AfterReady(ready)))
               ELSE unregs
  /\ console' = IF env.swSupported /\ AfterReady(ready) = "caught"
                THEN console \cup {UnregisterError(Len(unregs) + 1)}
                ELSE console
  /\ UNCHANGED <<env, config, registerCalls, loadListeners, loadFired, chains,
                 fetchCalls, apiCalls, onupdatefound, installingWorker, controller,
                 active, reloaded, response, ready>>
  /\ UNCHANGED trvars

\* navigator.serviceWorker.ready rejects: the catch of every waiting
\* unregister() continuation logs error.message.
ReadyRejected ==
  /\ env.swSupported
  /\ ready = "pending"
  /\ ready' = "rejected"
  /\ unregs' = [j \in 1..Len(unregs) |->
                 IF unregs[j].pc = "awaitReady" THEN Chain("caught") ELSE unregs[j]]
  /\ console' = console \cup
       {UnregisterError(j) : j \in {k \in 1..Len(unregs) : unregs[k].pc = "awaitReady"}}
  /\ UNCHANGED <<env, config, registerCalls, loadListeners, loadFired, chains,
                 fetchCalls, apiCalls, onupdatefound, installingWorker, controller,
                 active, reloaded, response, unregisterCalls>>
  /\ UNCHANGED trvars

\* The promise of registration.unregister() fulfils: the registration is
\* removed.
UnregistrationFulfilled(j) ==
  /\ j \in 1..Len(unregs)
  /\ unregs[j].pc = "unregistering"
  /\ unregs' = [unregs EXCEPT ![j] = Chain("unregistered")]
  /\ UNCHANGED <<env, config, registerCalls, loadListeners, loadFired, chains,
                 fetchCalls, apiCalls, onupdatefound, installingWorker, controller,
                 active, console, reloaded, response, ready, unregisterCalls>>
  /\ UNCHANGED trvars

\* The promise of registration.unregister() rejects: the then-handler did
\* not return it, so the catch of line 312 is not on its chain and the
\* rejection has no handler.
UnregistrationRejected(j) ==
  /\ j \in 1..Len(unregs)
  /\ unregs[j].pc = "unregistering"
  /\ unregs' = [unregs EXCEPT ![j] = Chain("unhandledRejection")]
  /\ UNCHANGED <<env, config, registerCalls, loadListeners, loadFired, chains,
                 fetchCalls, apiCalls, onupdatefound, installingWorker, controller,
                 active, console, reloaded, response, ready, unregisterCalls>>
  /\ UNCHANGED trvars

UnregisterNext ==
  \/ unregister
  \/ ReadyResolved
  \/ ReadyRejected
  \/ \E j \in 1..MaxUnregisterCalls : UnregistrationFulfilled(j)
  \/ \E j \in 1..MaxUnregisterCalls : UnregistrationRejected(j)

\* A page that calls unregister() and never register().
UnregisterSpec == SWInit /\ [][UnregisterNext]_vars

\* ------------------------------------------------ service worker: claims
Provides(callback) ==
  config.present /\ (IF callback = "onUpdate" THEN config.onUpdate ELSE config.onSuccess)
Times(b) == IF b THEN 1 ELSE 0
CalledApi(pc) == pc \in {"registering", "registered", "registrationFailed"}
Registrations == {i \in 1..Len(chains) : CalledApi(chains[i].pc)}

\* C1: a handled install that finds a controller invokes config.onUpdate
\* (once, when the config provides it) and never config.onSuccess; one that
\* finds no controller invokes config.onSuccess and never config.onUpdate.
C1_OutcomeDispatch ==
  LET w == installingWorker IN
      /\ (w.onstatechange /\ w.controllerWas = "present") =>
           /\ w.onUpdateCalls = Times(Provides("onUpdate"))
           /\ w.onSuccessCalls = 0
      /\ (w.onstatechange /\ w.controllerWas = "absent") =>
           /\ w.onSuccessCalls = Times(Provides("onSuccess"))
           /\ w.onUpdateCalls = 0
      /\ (~w.onstatechange \/ w.controllerWas = "unknown") =>
           /\ w.onUpdateCalls = 0
           /\ w.onSuccessCalls = 0

C1_Witness ==
  /\ installingWorker.onstatechange
  /\ installingWorker.controllerWas = "present"
  /\ installingWorker.onUpdateCalls = 1
  /\ installingWorker.state = "activated"

\* C2 (as stated): on a qualifying page on which register() was called the
\* registration API is never invoked more than once.
C2_AtMostOnce ==
  (env.production /\ env.swSupported /\ env.publicOrigin = env.pageOrigin
   /\ registerCalls >= 1) => apiCalls <= 1

\* C2 (amended): the registration API is invoked exactly once for each load
\* listener that reached registration, so at most once per register() call
\* made before the load event (at most once after a single register() call);
\* on a non-loopback host it is invoked for every such call when the load
\* event fires, and register() calls made after the load event invoke nothing.
C2_OncePerRegisterCall ==
  /\ apiCalls = Cardinality(Registrations)
  /\ Len(chains) <= registerCalls
  /\ (registerCalls <= 1 => apiCalls <= 1)
  /\ ~loadFired => apiCalls = 0
  /\ (loadFired /\ ~isLocalhost(env.hostname)) => apiCalls = Len(chains)

C2_Witness ==
  /\ registerCalls = 2
  /\ Len(chains) = 1
  /\ apiCalls = 1
  /\ ~isLocalhost(env.hostname)
  /\ chains[1].pc = "registered"

OnLoopback404 ==
  isLocalhost(env.hostname) /\ response # NoResponse /\ response.status = 404

\* The continuations that wait for serviceWorker.ready or for their
\* unregister call to settle.
Waiting ==
  {i \in 1..Len(chains) : chains[i].pc \in {"awaitReady", "unregistering"}}

C3_Safety ==
  /\ OnLoopback404 =>
       /\ apiCalls = 0
       /\ \A i \in 1..Len(chains) :
            chains[i].pc \in {"fetching", "offline", "awaitReady",
                              "unregistering", "unregisterRejected", "reloading"}
  /\ reloaded => \E i \in 1..Len(chains) : chains[i].pc = "reloading"

ScriptFound(r) ==
  r.status # 404 /\ r.contentType.present /\ indexOf(r.contentType.value, Marker) # -1

\* C4 (as stated): on a loopback host registration is called only after a
\* response whose status is not 404 and whose content-type includes the
\* script marker.
C4_OnlyScriptRegisters ==
  isLocalhost(env.hostname) =>
    \A i \in 1..Len(chains) :
      CalledApi(chains[i].pc) => (response # NoResponse /\ ScriptFound(response))

\* C4 (amended): on a loopback host registration is called only after the
\* fetch has responded, and exactly when the status is not 404 and the
\* content-type header is absent or includes the script marker; a 404 or a
\* present content-type without the marker takes the unregister-then-reload
\* path and never registers.
C4_RegistersUnlessNotFoundOrNotScript ==
  isLocalhost(env.hostname) =>
    \A i \in 1..Len(chains) :
      LET pc == chains[i].pc
          ok == /\ response.status # 404
                /\ (~response.contentType.present
                    \/ indexOf(response.contentType.value, Marker) # -1)
      IN /\ CalledApi(pc) => (response # NoResponse /\ ok)
         /\ pc \in {"awaitReady", "unregistering", "unregisterRejected", "reloading"}
              => (response # NoResponse /\ ~ok)
         /\ (response # NoResponse /\ pc \notin {"fetching", "offline"}) =>
              (CalledApi(pc) <=> ok)

C4_Witness ==
  /\ isLocalhost(env.hostname)
  /\ \E i \in 1..Len(chains) : chains[i].pc = "registered"
  /\ response.status = 200
  /\ ~response.contentType.present

\* C5: with a build that is not production, or without service-worker
\* support, register() installs no load listener, and no fetch and no
\* registration call is ever made.
C5_NoOpOutsideProduction ==
  ~(env.production /\ env.swSupported) =>
    /\ loadListeners = 0
    /\ Len(chains) = 0
    /\ fetchCalls = 0
    /\ apiCalls = 0

C5_Witness ==
  /\ ~env.production
  /\ env.swSupported
  /\ registerCalls = 2
  /\ loadFired

\* C11: when the origin of the public URL differs from the page's origin,
\* register() installs no load listener, so that no continuation runs, no
\* fetch and no registration call is made, and nothing is logged, whatever
\* the number of register() calls and the events that follow.
C11_CrossOriginSilent ==
  (env.publicOrigin # env.pageOrigin) =>
    /\ loadListeners = 0
    /\ Len(chains) = 0
    /\ fetchCalls = 0
    /\ apiCalls = 0
    /\ console = {}
    /\ ~reloaded

C11_Witness ==
  /\ env.production
  /\ env.swSupported
  /\ env.publicOrigin # env.pageOrigin
  /\ registerCalls = 2
  /\ loadFired
  /\ ready = "resolved"

OfflineLog(i) == [level |-> "log", msg |-> "offline", who |-> i]
Offline == {i \in 1..Len(chains) : chains[i].pc = "offline"}

\* C12 (as stated): once a worker-script fetch has failed on a loopback host,
\* the registration API is not invoked and no unregister or reload happens
\* in that page load.
C12_NoRegistrationInPageLoad ==
  (isLocalhost(env.hostname) /\ Offline # {}) =>
    /\ apiCalls = 0
    /\ ~reloaded
    /\ \A i \in 1..Len(chains) : chains[i].pc \in {"fetching", "offline"}

C12_Inv ==
  /\ \A i \in 1..Len(chains) : (OfflineLog(i) \in console) <=> (i \in Offline)
  /\ Offline # {} => isLocalhost(env.hostname)
  /\ fetchCalls = (IF isLocalhost(env.hostname) THEN Len(chains) ELSE 0)
  /\ (Offline # {} /\ Len(chains) = 1) => (apiCalls = 0 /\ ~reloaded)
  /\ Cardinality(Offline) + apiCalls <= Len(chains)

C12_Step ==
  /\ \A i \in Offline : i \in 1..Len(chains') /\ chains'[i].pc = "offline"
  /\ Offline # {} => fetchCalls' = fetchCalls

\* C12 (amended): a continuation whose worker-script fetch fails on a loopback
\* host logs offline mode and ends there: it never invokes the registration
\* API, never unregisters or reloads, and its fetch is not issued again (each
\* load listener fetches exactly once). After a single register() call
\* nothing registers and nothing reloads in that page load; the continuation
\* of another register() call fetches on its own and may still register or
\* reload.
C12_OfflineIsTerminal == []C12_Inv /\ [][C12_Step]_vars

C12_Witness ==
  /\ Len(chains) = 2
  /\ chains[1].pc = "offline"
  /\ chains[2].pc = "registered"
  /\ OfflineLog(1) \in console
  /\ apiCalls = 1
  /\ fetchCalls = 2

RegistrationError(i) == [level |-> "error", msg |-> "registration", who |-> i]
Rejected == {i \in 1..Len(chains) : chains[i].pc = "registrationFailed"}
Resolved == {i \in 1..Len(chains) : chains[i].pc = "registered"}

C13_Inv ==
  /\ \A i \in 1..Len(chains) : (RegistrationError(i) \in console) <=> (i \in Rejected)
  /\ \A m \in console : m.level = "error" => m.who \in Rejected
  /\ onupdatefound <=> Resolved # {}
  /\ installingWorker.onstatechange => Resolved # {}
  /\ Resolved = {} =>
       (installingWorker.onUpdateCalls = 0 /\ installingWorker.onSuccessCalls = 0)
  /\ apiCalls = Cardinality(Rejected) + Cardinality(Resolved)
                 + Cardinality({i \in 1..Len(chains) : chains[i].pc = "registering"})

C13_Step ==
  /\ \A i \in Rejected : i \in 1..Len(chains') /\ chains'[i].pc = "registrationFailed"
  /\ \A i \in 1..Len(chains) :
       (chains[i].pc = "registering" /\ i \in 1..Len(chains')
        /\ chains'[i].pc = "registrationFailed") =>
         /\ apiCalls' = apiCalls
         /\ onupdatefound' = onupdatefound
         /\ installingWorker' = installingWorker

\* C13: a continuation whose registration call rejects logs the error on the
\* error channel and ends there: it sets no updatefound handler, so that
\* neither config.onSuccess nor config.onUpdate is invoked through it (the
\* callbacks are invoked only through a registration call that resolved),
\* it makes no further registration call, and nothing else is logged as an
\* error or handed on.
C13_RejectionLoggedAndTerminal == []C13_Inv /\ [][C13_Step]_vars

C13_Witness ==
  /\ Len(chains) = 1
  /\ chains[1].pc = "registrationFailed"
  /\ RegistrationError(1) \in console
  /\ apiCalls = 1
  /\ installingWorker.state = "activated"
  /\ config.present /\ config.onSuccess /\ config.onUpdate
  /\ installingWorker.onUpdateCalls = 0
  /\ installingWorker.onSuccessCalls = 0

Failed(j) == unregs[j].pc \in {"caught", "unhandledRejection"}

\* C14 (as stated): without service-worker support unregister() does
\* nothing; with it, every error of an unregister() call, a failure of
\* registration.unregister() included, is logged on the error channel and
\* none is left unhandled.
C14_ErrorsLogged ==
  /\ ~env.swSupported => (unregs = <<>> /\ console = {})
  /\ env.swSupported => Len(unregs) = unregisterCalls
  /\ \A j \in 1..Len(unregs) :
       /\ Failed(j) <=> (UnregisterError(j) \in console)
       /\ unregs[j].pc # "unhandledRejection"

Calls(w) == w.onUpdateCalls + w.onSuccessCalls
InstalledLog(c) ==
  [level |-> "log", msg |-> IF c THEN "new-content" ELSE "cached", who |-> 0]

C19_Inv ==
  LET w == installingWorker IN
    /\ w.onstatechange => (onupdatefound /\ Resolved # {})
    /\ Calls(w) > 0 =>
         /\ w.onstatechange
         /\ w.state \in {"installed", "activating", "activated", "redundant"}
         /\ w.controllerWas # "unknown"
         /\ Calls(w) = 1
    /\ w.onUpdateCalls <= Times(Provides("onUpdate"))
    /\ w.onSuccessCalls <= Times(Provides("onSuccess"))

C19_Step ==
  LET a == installingWorker
      b == installingWorker'
      installed == a.state = "installing" /\ b.state = "installed" /\ a.onstatechange
  IN /\ Calls(b) > Calls(a) =>
          (installed /\ onupdatefound /\ Resolved # {} /\ Calls(a) = 0)
     /\ installed =>
          /\ InstalledLog(controller) \in console'
          /\ b.onUpdateCalls = Times(controller /\ Provides("onUpdate"))
          /\ b.onSuccessCalls = Times(~controller /\ Provides("onSuccess"))
     /\ (a.state # b.state /\ b.state \notin {"installing", "installed"}) =>
          (Calls(b) = Calls(a) /\ console' = console)

\* C19: config.onSuccess and config.onUpdate are invoked only by the
\* statechange event that takes to 'installed' a worker whose onstatechange
\* was set by an updatefound handler, itself set once a registration promise
\* had resolved; a state change to any other state invokes no callback and
\* logs nothing; and when config or the callback is absent the event is
\* handled all the same: the message is logged and nothing is invoked.
C19_CallbacksOnlyAfterInstalled == []C19_Inv /\ [][C19_Step]_vars

C19_Witness ==
  /\ ~config.present
  /\ installingWorker.onstatechange
  /\ installingWorker.state = "redundant"
  /\ installingWorker.controllerWas = "absent"
  /\ InstalledLog(FALSE) \in console
  /\ Calls(installingWorker) = 0

C20_Inv ==
  /\ ~loadFired => (fetchCalls = 0 /\ apiCalls = 0 /\ chains = <<>>)
  /\ ~isLocalhost(env.hostname) => (fetchCalls = 0 /\ apiCalls = Len(chains))
  /\ isLocalhost(env.hostname) =>
       \A i \in 1..Len(chains) : CalledApi(chains[i].pc) => response # NoResponse

C20_Step ==
  /\ registerCalls' # registerCalls =>
       (fetchCalls' = fetchCalls /\ apiCalls' = apiCalls /\ chains' = chains)
  /\ (~loadFired /\ loadFired') =>
       /\ Len(chains') = loadListeners
       /\ fetchCalls' = (IF isLocalhost(env.hostname) THEN loadListeners ELSE 0)
       /\ apiCalls' = (IF isLocalhost(env.hostname) THEN 0 ELSE loadListeners)

\* C20: a register() call issues no fetch and no registration call: before
\* the window load event there is none, and the load event runs each
\* installed listener, which on a loopback host fetches the worker script
\* (and registers only after a response) and on any other host invokes the
\* registration API at once, without any fetch.
C20_OnlyAfterLoad == []C20_Inv /\ [][C20_Step]_vars

C20_Witness ==
  /\ ~isLocalhost(env.hostname)
  /\ loadFired
  /\ registerCalls = 2
  /\ Len(chains) = 2
  /\ apiCalls = 2
  /\ fetchCalls = 0

\* ------------------------------------------------------------ transition
\* addClasses(node, classes): classes.length && node.classList.add(...classes)
addClasses(classList, classes) ==
  IF Len(classes) # 0 THEN classList \cup Range(classes) ELSE classList

\* removeClasses(node, classes)
removeClasses(classList, classes) ==
  IF Len(classes) # 0 THEN classList \ Range(classes) ELSE classList

\* onEnter: clear the inline display unless removeFromDom, add enter and
\* enterStart.
onEnter(p, s) ==
  [s EXCEPT !.display = IF ~p.unmountOnExit THEN "" ELSE @,
            !.classList = addClasses(@, Classes(p.enter) \o Classes(p.enterStart)),
            !.callbacks = <<"onEnter">>]

\* Mutant: enterEnd is added before enterStart is removed.
onEnteringAddsFirst(p, s) ==
  [s EXCEPT !.classList = removeClasses(addClasses(@, Classes(p.enterEnd)),
                                        Classes(p.enterStart)),
            !.callbacks = Append(@, "onEntering")]

\* onEntering: remove enterStart, add enterEnd.
onEntering(p, s) ==
  [s EXCEPT !.classList = addClasses(removeClasses(@, Classes(p.enterStart)),
                                     Classes(p.enterEnd)),
            !.callbacks = Append(@, "onEntering")]

\* onEntered: remove enterEnd and enter.
onEntered(p, s) ==
  [s EXCEPT !.classList = removeClasses(@, Classes(p.enterEnd) \o Classes(p.enter)),
            !.callbacks = Append(@, "onEntered")]

\* onExit: add leave and leaveStart.
onExit(p, s) ==
  [s EXCEPT !.classList = addClasses(@, Classes(p.leave) \o Classes(p.leaveStart)),
            !.callbacks = <<"onExit">>]

\* onExiting: remove leaveStart, add leaveEnd.
onExiting(p, s) ==
  [s EXCEPT !.classList = addClasses(removeClasses(@, Classes(p.leaveStart)),
                                     Classes(p.leaveEnd)),
            !.callbacks = Append(@, "onExiting")]

\* Mutant: the test of removeFromDom is inverted.
onExitedInverted(p, s) ==
  [s EXCEPT !.classList = removeClasses(@, Classes(p.leaveEnd) \o Classes(p.leave)),
            !.display = IF p.unmountOnExit THEN "none" ELSE @,
            !.callbacks = Append(@, "onExited")]

\* onExited: remove leaveEnd and leave, set the inline display to 'none'
\* unless removeFromDom.
onExited(p, s) ==
  [s EXCEPT !.classList = removeClasses(@, Classes(p.leaveEnd) \o Classes(p.leave)),
            !.display = IF ~p.unmountOnExit THEN "none" ELSE @,
            !.callbacks = Append(@, "onExited")]

\* Mutant: done is called at once instead of being registered.
addEndListenerCallsDone(direction) ==
  IF direction = "enter" THEN "onEntered" ELSE "onExited"

\* addEndListener: done is registered for the node's transitionend event; no
\* timeout is given, so nothing else completes the transition.
addEndListener(direction) == IF direction = "enter" THEN "endEnter" ELSE "endExit"

\* in={show}
In(show) == show = "true"

\* Mutant: a child keeps its own appear.
TransitionOwnAppear(p, par) ==
  IF p.show = "undefined"
  THEN [show |-> par.show, appear |-> p.appear]
  ELSE [show |-> p.show, appear |-> p.appear]

\* Mutant: the state of an ancestor that published one wins over the
\* instance's own show.
TransitionAncestorWins(p, par) ==
  IF p.show = "undefined" \/ par.show # "undefined"
  THEN [show |-> par.show, appear |-> (par.appear \/ ~par.isInitialRender)]
  ELSE [show |-> p.show, appear |-> p.appear]

\* Transition: a child (show undefined) hands the parent's show and
\* appear || !isInitialRender to CSSTransition, any other instance its own.
Transition(p, par) ==
  IF p.show = "undefined"
  THEN [show |-> par.show, appear |-> (par.appear \/ ~par.isInitialRender)]
  ELSE [show |-> p.show, appear |-> p.appear]

\* The value of the TransitionContext.Provider an instance with an explicit
\* show renders; a child renders none and its descendants see `par`.
Provided(p, isInitialRender, par) ==
  IF p.show = "undefined"
  THEN par
  ELSE [show |-> p.show, isInitialRender |-> isInitialRender, appear |-> p.appear]

\* The style prop of the rendered node, applied when the node is created.
InitialDisplay(p) == IF ~p.unmountOnExit THEN "none" ELSE ""

\* The transition starts an enter: cancel the pending callback, call
\* onEnter, then set the status to entering with onEntering as callback.
performEnter(p, s) ==
  [onEnter(p, s) EXCEPT !.nextCallback = "onEntering", !.heard = FALSE]

\* The transition starts an exit.
performExit(p, s) ==
  [onExit(p, s) EXCEPT !.nextCallback = "onExiting", !.heard = FALSE]

\* updateStatus of the transition, called by componentDidMount and
\* componentDidUpdate.
updateStatus(p, s, nextStatus) ==
  IF nextStatus = "entering" THEN performEnter(p, s)
  ELSE IF nextStatus = "exiting" THEN performExit(p, s)
  ELSE IF p.unmountOnExit /\ s.status = "exited"
       THEN [s EXCEPT !.pendingUnmount = TRUE]
       ELSE s

\* The status the transition starts in.
InitialStatus(p, t) ==
  IF In(t.show)
  THEN (IF t.appear THEN "exited" ELSE "entered")
  ELSE (IF p.unmountOnExit THEN "unmounted" ELSE "exited")

\* The first render of an instance, with t the props of its CSSTransition,
\* and its componentDidMount.
Mounted(p, t) ==
  LET s == [Blank EXCEPT !.mounted = TRUE,
                         !.effectPending = TRUE,
                         !.renders = 1,
                         !.returned = TRUE,
                         !.show = t.show,
                         !.appear = t.appear,
                         !.status = InitialStatus(p, t),
                         !.display = IF InitialStatus(p, t) # "unmounted"
                                     THEN InitialDisplay(p) ELSE ""]
  IN updateStatus(p, s, IF In(t.show) /\ t.appear THEN "entering" ELSE "none")

\* Mutant: the effect never clears the flag.
FlushedNever(s) == [s EXCEPT !.effectPending = FALSE]

\* useEffect(() => { isInitialRender.current = false }, [])
Flushed(s) ==
  IF s.effectPending
  THEN [s EXCEPT !.isInitialRender = FALSE, !.effectPending = FALSE]
  ELSE s

\* A later render of an instance and its componentDidUpdate: an unmounted
\* transition whose `in` is set renders its node again, and the status
\* decides whether an enter or an exit starts.
Updated(p, s0, t) ==
  LET remount == In(t.show) /\ s0.status = "unmounted"
      s == [s0 EXCEPT !.renders = IF @ < 2 THEN @ + 1 ELSE @,
                      !.returned = s0.isInitialRender,
                      !.show = t.show,
                      !.appear = t.appear,
                      !.status = IF remount THEN "exited" ELSE @,
                      !.display = IF remount THEN InitialDisplay(p) ELSE @,
                      !.classList = IF remount THEN {} ELSE @]
      nextStatus ==
        IF In(t.show)
        THEN (IF s.status \notin {"entering", "entered"} THEN "entering" ELSE "none")
        ELSE (IF s.status \in {"entering", "entered"} THEN "exiting" ELSE "none")
  IN updateStatus(p, s, nextStatus)

SyncCallbacks == {"onEntering", "onEntered", "onExiting", "onExited"}
HasNode(s) == s.mounted /\ s.status # "unmounted"
\* No state update is waiting to be processed: the next thing to happen is an
\* event.
Idle ==
  \A i \in Inst : inst[i].nextCallback \notin SyncCallbacks /\ ~inst[i].pendingUnmount
\* State updates of one batch are processed children first.
Turn(i) == i = "nested" \/ inst["nested"].nextCallback \notin SyncCallbacks

\* A render of an instance under the context value par, the first one when
\* it is not mounted yet, with the lifecycle method that follows it.
Instance(p, old, par) ==
  LET t == Transition(p, par)
      s == IF old.mounted THEN Updated(p, Flushed(old), t) ELSE Mounted(p, t)
  IN [s EXCEPT !.provided = Provided(p, s.returned, par)]

\* The instances after a render of the tree: the nested instance is rendered
\* when it is among the children of a root whose node is rendered.
Tree(ps, present, old) ==
  LET root == Instance(ps["root"], old["root"], DefaultParent)
  IN [i \in Inst |->
       IF i = "root" THEN root
       ELSE IF present /\ HasNode(root)
            THEN Instance(ps["nested"], old["nested"], root.provided)
            ELSE Blank]

\* The first render of the tree.
Mount ==
  /\ ~treeMounted
  /\ treeMounted' = TRUE
  /\ inst' = Tree(props, nestedPresent, inst)
  /\ UNCHANGED <<props, nestedKind, nestedPresent>>
  /\ UNCHANGED swvars

\* The owner of the tree renders again, with the show it now gives the root
\* and an explicit nested instance, and maybe with the nested instance added.
Render(rootShow, nestedShow, add) ==
  /\ treeMounted
  /\ Idle
  /\ nestedPresent' = (nestedPresent \/ (add /\ nestedKind # "none"))
  /\ props' = [props EXCEPT !["root"].show = rootShow,
                            !["nested"].show =
                               IF nestedKind = "explicit" THEN nestedShow ELSE @]
  /\ inst' = Tree(props', nestedPresent', inst)
  /\ UNCHANGED <<nestedKind, treeMounted>>
  /\ UNCHANGED swvars

\* The effects of useIsInitialRender run.
FlushEffects ==
  /\ treeMounted
  /\ Idle
  /\ \E i \in Inst : inst[i].effectPending
  /\ inst' = [i \in Inst |-> Flushed(inst[i])]
  /\ UNCHANGED <<props, nestedKind, nestedPresent, treeMounted>>
  /\ UNCHANGED swvars

\* The instances whose node receives a transitionend event dispatched at
\* target's node: the event bubbles from the nested node to the root's.
Receivers(target) ==
  {i \in Inst : HasNode(inst[i]) /\ (i = target \/ (i = "root" /\ target = "nested"))}
Listening(s) == s.nextCallback \in {"endEnter", "endExit"}

\* done, the listener added by addEndListener: the transition sets its status
\* to entered (exited), with onEntered (onExited) as callback.
done(s) ==
  [s EXCEPT !.nextCallback = IF @ = "endEnter" THEN "onEntered" ELSE "onExited",
            !.heard = TRUE]

\* A transitionend event at target's node.
TransitionEnd(target) ==
  /\ treeMounted
  /\ Idle
  /\ HasNode(inst[target])
  /\ \E i \in Receivers(target) : Listening(inst[i])
  /\ inst' = [i \in Inst |->
               IF i \in Receivers(target) /\ Listening(inst[i])
               THEN done(inst[i]) ELSE inst[i]]
  /\ UNCHANGED <<props, nestedKind, nestedPresent, treeMounted>>
  /\ UNCHANGED swvars

\* The status becomes entering: onEntering runs and the end listener is added.
Entering(i) ==
  /\ Turn(i)
  /\ inst[i].nextCallback = "onEntering"
  /\ inst' = [inst EXCEPT ![i] =
       [onEntering(props[i], inst[i]) EXCEPT !.status = "entering",
                                             !.nextCallback = addEndListener("enter")]]
  /\ UNCHANGED <<props, nestedKind, nestedPresent, treeMounted>>
  /\ UNCHANGED swvars

\* The status becomes entered: onEntered runs.
Entered(i) ==
  /\ Turn(i)
  /\ inst[i].nextCallback = "onEntered"
  /\ inst' = [inst EXCEPT ![i] =
       [onEntered(props[i], inst[i]) EXCEPT !.status = "entered",
                                            !.nextCallback = "none"]]
  /\ UNCHANGED <<props, nestedKind, nestedPresent, treeMounted>>
  /\ UNCHANGED swvars

\* The status becomes exiting: onExiting runs and the end listener is added.
Exiting(i) ==
  /\ Turn(i)
  /\ inst[i].nextCallback = "onExiting"
  /\ inst' = [inst EXCEPT ![i] =
       [onExiting(props[i], inst[i]) EXCEPT !.status = "exiting",
                                            !.nextCallback = addEndListener("exit")]]
  /\ UNCHANGED <<props, nestedKind, nestedPresent, treeMounted>>
  /\ UNCHANGED swvars

\* The status becomes exited: componentDidUpdate asks for the unmount when
\* unmountOnExit is set, then onExited runs.
Exited(i) ==
  /\ Turn(i)
  /\ inst[i].nextCallback = "onExited"
  /\ inst' = [inst EXCEPT ![i] =
       onExited(props[i],
                updateStatus(props[i],
                             [inst[i] EXCEPT !.status = "exited",
                                             !.nextCallback = "none"],
                             "none"))]
  /\ UNCHANGED <<props, nestedKind, nestedPresent, treeMounted>>
  /\ UNCHANGED swvars

\* The status becomes unmounted: the node leaves the document, and with the
\* root's node the nested instance.
Unmount(i) ==
  /\ \A j \in Inst : inst[j].nextCallback \notin SyncCallbacks
  /\ inst[i].pendingUnmount
  /\ inst' = [j \in Inst |->
               IF j = i
               THEN [inst[i] EXCEPT !.status = "unmounted",
                                    !.pendingUnmount = FALSE,
                                    !.classList = {},
                                    !.display = ""]
               ELSE IF i = "root" THEN Blank ELSE inst[j]]
  /\ UNCHANGED <<props, nestedKind, nestedPresent, treeMounted>>
  /\ UNCHANGED swvars

TRNext ==
  \/ Mount
  \/ \E r, n \in {"true", "false"}, a \in BOOLEAN : Render(r, n, a)
  \/ FlushEffects
  \/ \E i \in Inst : TransitionEnd(i)
  \/ \E i \in Inst : Entering(i)
  \/ \E i \in Inst : Entered(i)
  \/ \E i \in Inst : Exiting(i)
  \/ \E i \in Inst : Exited(i)
  \/ \E i \in Inst : Unmount(i)

AllClasses == {c \in [1..6 -> ClassStrings] : TRUE}

\* A single instance with an explicit show, over all class-name props.
CSSInit ==
  /\ SWIdle
  /\ nestedKind = "none"
  /\ nestedPresent = FALSE
  /\ treeMounted = FALSE
  /\ inst = [i \in Inst |-> Blank]
  /\ \E show \in {"true", "false"}, appear, unmountOnExit \in BOOLEAN,
        classes \in AllClasses :
       props = [i \in Inst |->
                 IF i = "root" THEN Props(show, appear, unmountOnExit, classes)
                 ELSE Props("undefined", FALSE, FALSE, DefaultClasses)]

CSSSpec == CSSInit /\ [][TRNext]_vars

\* The class-name props of the instances of the tree.
TreeClasses ==
  << <<"a", " ", "b">>, <<"c">>, <<"d">>, <<"a", " ", "b">>, <<"d">>, <<"c">> >>

\* A root with a nested instance, a child or one with its own show, present
\* from the first render or added by a later one.
TreeInit ==
  /\ SWIdle
  /\ nestedKind \in {"child", "explicit"}
  /\ nestedPresent \in BOOLEAN
  /\ treeMounted = FALSE
  /\ inst = [i \in Inst |-> Blank]
  /\ \E show \in {"true", "false"}, appear, unmountOnExit \in BOOLEAN,
        nshow \in {"true", "false"}, nappear, nunmountOnExit \in BOOLEAN :
       props = [i \in Inst |->
                 IF i = "root" THEN Props(show, appear, unmountOnExit, TreeClasses)
                 ELSE Props(IF nestedKind = "child" THEN "undefined" ELSE nshow,
                            nappear, nunmountOnExit, TreeClasses)]

TreeSpec == TreeInit /\ [][TRNext]_vars

\* The characters of a class-name prop string: letters and the separator.
Alphabet == {"a", "b", " "}
Strings(n) == UNION {[1..k -> Alphabet] : k \in 0..n}

\* A single instance whose six class-name props are one string, over all
\* strings of up to MaxLen characters.
SplitInit ==
  /\ SWIdle
  /\ nestedKind = "none"
  /\ nestedPresent = FALSE
  /\ treeMounted = FALSE
  /\ inst = [i \in Inst |-> Blank]
  /\ \E show \in {"true", "false"}, appear, unmountOnExit \in BOOLEAN,
        str \in Strings(MaxLen) :
       props = [i \in Inst |->
                 IF i = "root"
                 THEN Props(show, appear, unmountOnExit, <<str, str, str, str, str, str>>)
                 ELSE Props("undefined", FALSE, FALSE, DefaultClasses)]

SplitSpec == SplitInit /\ [][TRNext]_vars

\* ---------------------------------------------------- transition: claims
Tokens(str) == Range(Classes(str))

\* The phase of an instance, by the last callback of the direction it runs:
\* hidden -> entering -> entered -> shown, shown -> exiting -> exited -> hidden.
Phase(s) ==
  IF s.status = "unmounted" THEN "hidden"
  ELSE IF s.callbacks = <<>>
       THEN (IF s.status = "entered" THEN "shown" ELSE "hidden")
       ELSE CASE s.callbacks[Len(s.callbacks)] = "onEnter" -> "entering"
              [] s.callbacks[Len(s.callbacks)] = "onEntering" -> "entered"
              [] s.callbacks[Len(s.callbacks)] = "onEntered" -> "shown"
              [] s.callbacks[Len(s.callbacks)] = "onExit" -> "exiting"
              [] s.callbacks[Len(s.callbacks)] = "onExiting" -> "exited"
              [] OTHER -> "hidden"

C6_Step ==
  LET p == props'["root"]
      a == inst["root"]
      b == inst'["root"]
      E == Tokens(p.enter)
      ES == Tokens(p.enterStart)
      EE == Tokens(p.enterEnd)
      called == a.callbacks # b.callbacks
      shown == \/ (treeMounted /\ props["root"].show = "false" /\ p.show = "true")
               \/ (~treeMounted /\ treeMounted' /\ p.show = "true" /\ p.appear)
  IN /\ shown => (called /\ b.callbacks = <<"onEnter">>)
     /\ (called /\ b.callbacks = <<"onEnter">>) =>
          /\ p.show = "true"
          /\ (E \cup ES) \subseteq b.classList
          /\ b.display = ""
     /\ (called /\ Phase(b) = "entered") =>
          /\ a.callbacks = <<"onEnter">>
          /\ b.callbacks = <<"onEnter", "onEntering">>
          /\ b.classList = (a.classList \ ES) \cup EE
     /\ (called /\ Phase(b) = "shown") =>
          /\ a.callbacks = <<"onEnter", "onEntering">>
          /\ b.callbacks = <<"onEnter", "onEntering", "onEntered">>
          /\ a.heard
          /\ b.classList = a.classList \ (EE \cup E)

\* C6 (as stated): a root instance with show=true, given enter and enterStart
\* tokens, has run, or is running, the enter direction.
C6_ShownRootEntered ==
  (treeMounted /\ props["root"].show = "true"
   /\ Tokens(props["root"].enter) # {} /\ Tokens(props["root"].enterStart) # {}) =>
    inst["root"].callbacks \in {<<"onEnter">>, <<"onEnter", "onEntering">>,
                                <<"onEnter", "onEntering", "onEntered">>}

\* C6 (amended): when the show of a root instance turns true after its mount,
\* or it is mounted with show=true and appear set, onEnter puts the enter and enterStart tokens on the node at
\* once and clears the inline display; onEntering, which only follows
\* onEnter, removes the enterStart tokens and adds the enterEnd ones;
\* onEntered, which only follows onEntering and a transitionend event,
\* removes the enterEnd and enter tokens.
C6_EnterSequence == [][C6_Step]_vars

C6_Witness ==
  /\ props["root"].show = "true"
  /\ props["root"].enter = <<"a", " ", "b">>
  /\ props["root"].enterStart = <<" ", "b", " ", " ", "c", " ">>
  /\ props["root"].enterEnd = <<"a", " ", "b">>
  /\ props["root"].leave = <<>>
  /\ inst["root"].callbacks = <<"onEnter", "onEntering", "onEntered">>
  /\ inst["root"].status = "entered"
  /\ inst["root"].classList = {}

C7_Step ==
  LET p == props'["root"]
      a == inst["root"]
      b == inst'["root"]
      L == Tokens(p.leave)
      LS == Tokens(p.leaveStart)
      LE == Tokens(p.leaveEnd)
      called == a.callbacks # b.callbacks
      hiding == /\ treeMounted /\ props["root"].show = "true" /\ p.show = "false"
                /\ a.status = "entered"
  IN /\ hiding => (called /\ b.callbacks = <<"onExit">>)
     /\ (called /\ b.callbacks = <<"onExit">>) =>
          /\ p.show = "false"
          /\ b.classList = a.classList \cup L \cup LS
          /\ b.display = a.display
     /\ (called /\ Phase(b) = "exited") =>
          /\ a.callbacks = <<"onExit">>
          /\ b.callbacks = <<"onExit", "onExiting">>
          /\ b.classList = (a.classList \ LS) \cup LE
          /\ b.display = a.display
     /\ (called /\ b.callbacks # <<>> /\ b.callbacks[Len(b.callbacks)] = "onExited") =>
          /\ a.callbacks = <<"onExit", "onExiting">>
          /\ b.callbacks = <<"onExit", "onExiting", "onExited">>
          /\ b.classList = a.classList \ (LE \cup L)
          /\ (b.display = "none") <=> ~p.unmountOnExit
          /\ p.unmountOnExit => b.display = a.display

\* C7: when the show of a shown instance turns false, onExit adds the leave
\* and leaveStart tokens; onExiting, which only follows onExit, removes the
\* leaveStart tokens and adds the leaveEnd ones; onExited, which only follows
\* onExiting, removes the leaveEnd and leave tokens and sets the inline
\* display to 'none' exactly when unmountOnExit is not set.
C7_LeaveSequence == [][C7_Step]_vars

C7_Witness ==
  /\ props["root"].show = "false"
  /\ ~props["root"].unmountOnExit
  /\ props["root"].leave = <<"a", " ", "b">>
  /\ props["root"].leaveStart = <<" ", "b", " ", " ", "c", " ">>
  /\ props["root"].leaveEnd = <<"a", " ", "b">>
  /\ props["root"].enter = <<>>
  /\ inst["root"].callbacks = <<"onExit", "onExiting", "onExited">>
  /\ inst["root"].status = "exited"
  /\ inst["root"].display = "none"
  /\ inst["root"].classList = {}

\* C8: onEntered (onExited) runs, and the status becomes entered (exited)
\* after entering (exiting), only once a transitionend event was delivered
\* to the listener added after the onEntering (onExiting) of the same
\* direction; until then the instance stays in its phase.
C8_AdvanceOnTransitionEnd ==
  \A i \in Inst :
    LET s == inst[i] IN
      /\ s.nextCallback \in {"onEntered", "onExited"} =>
           (s.heard /\ Len(s.callbacks) = 2)
      /\ (s.callbacks # <<>> /\ s.callbacks[Len(s.callbacks)] \in {"onEntered", "onExited"}) =>
           (s.heard /\ Len(s.callbacks) = 3)
      /\ (s.callbacks # <<>> /\ ~s.heard) =>
           s.callbacks \in {<<"onEnter">>, <<"onEnter", "onEntering">>,
                            <<"onExit">>, <<"onExit", "onExiting">>}

C8_Witness ==
  /\ inst["nested"].callbacks = <<"onExit", "onExiting", "onExited">>
  /\ inst["nested"].heard
  /\ inst["root"].callbacks = <<"onEnter", "onEntering">>
  /\ ~inst["root"].heard
  /\ inst["root"].status = "entering"

ChildUnderHiddenParent ==
  /\ nestedKind = "child"
  /\ inst["nested"].mounted
  /\ inst["root"].renders >= 1
  /\ inst["root"].provided.show = "false"

\* C9 (as stated): a child whose root has show=false is in the hidden phase.
C9_ChildHidden ==
  ChildUnderHiddenParent => Phase(inst["nested"]) = "hidden"

\* C9 (amended): a child whose root has show=false is in the hidden phase, or
\* in the exiting or exited phase of the leave direction that the root's
\* show turning false started, never entering or shown, whatever its own
\* appear; and every child is handed show = parent.show and
\* appear = parent.appear or not parent.isInitialRender.
C9_ChildHiddenOrLeaving ==
  LET par == inst["root"].provided
      c == inst["nested"]
  IN /\ ChildUnderHiddenParent =>
          /\ Phase(c) \in {"hidden", "exiting", "exited"}
          /\ c.callbacks = <<>> => c.status \in {"exited", "unmounted"}
     /\ (nestedKind = "child" /\ c.mounted) =>
          /\ c.show = par.show
          /\ c.appear = (par.appear \/ ~par.isInitialRender)

C9_Witness ==
  /\ ChildUnderHiddenParent
  /\ props["nested"].appear
  /\ ~inst["root"].provided.appear
  /\ ~inst["nested"].appear
  /\ inst["nested"].callbacks = <<>>
  /\ inst["nested"].status = "exited"

\* C10: an instance with an explicit show hands its own show and appear to
\* its CSSTransition, whatever its ancestor published, and publishes its own
\* show, isInitialRender and appear; an instance without show hands on the
\* show its ancestor published and publishes nothing of its own.
C10_ExplicitShowWins ==
  \A i \in Inst :
    LET s == inst[i]
        par == IF i = "root" THEN DefaultParent ELSE inst["root"].provided
    IN s.mounted =>
         IF props[i].show # "undefined"
         THEN /\ s.show = props[i].show
              /\ s.appear = props[i].appear
              /\ s.provided = [show |-> props[i].show,
                               isInitialRender |-> s.returned,
                               appear |-> props[i].appear]
         ELSE /\ s.show = par.show
              /\ s.provided = par

C10_Witness ==
  /\ nestedKind = "explicit"
  /\ inst["nested"].mounted
  /\ props["nested"].show = "true"
  /\ props["nested"].appear
  /\ inst["root"].provided = [show |-> "false", isInitialRender |-> FALSE, appear |-> FALSE]
  /\ inst["nested"].status = "entered"
  /\ inst["nested"].provided = [show |-> "true", isInitialRender |-> TRUE, appear |-> TRUE]

Groups(p) == <<p.enter, p.enterStart, p.enterEnd, p.leave, p.leaveStart, p.leaveEnd>>

\* The positions where a run of characters other than the separator starts,
\* the run that starts at such a position, and the k-th of these positions.
Starts(str) == {i \in 1..Len(str) : str[i] # " " /\ (i = 1 \/ str[i - 1] = " ")}
RunAt(str, i) ==
  SubSeq(str, i, CHOOSE m \in i..Len(str) :
                   /\ \A k \in i..m : str[k] # " "
                   /\ (m = Len(str) \/ str[m + 1] = " "))
Start(str, k) ==
  CHOOSE i \in Starts(str) : Cardinality({h \in Starts(str) : h <= i}) = k
Runs(str) == {RunAt(str, i) : i \in Starts(str)}

\* C15: each of the six class-name strings is cut at its separators into its
\* maximal runs of other characters, in order and without any empty token,
\* whatever its leading, trailing or repeated separators; no empty token and
\* no token holding a separator ever reaches the class list, which holds only
\* such runs; a string that is empty or made of separators only yields no
\* token and puts nothing on the class list.
C15_TokensSplitAndFiltered ==
  \A g \in 1..6 :
    LET str == Groups(props["root"])[g]
        cs == Classes(str)
    IN /\ Len(cs) = Cardinality(Starts(str))
       /\ \A k \in 1..Len(cs) :
            /\ cs[k] = RunAt(str, Start(str, k))
            /\ Len(cs[k]) > 0
            /\ \A c \in 1..Len(cs[k]) : cs[k][c] # " "
       /\ <<>> \notin inst["root"].classList
       /\ inst["root"].classList \subseteq Runs(str)
       /\ (\A i \in 1..Len(str) : str[i] = " ") =>
            (cs = <<>> /\ inst["root"].classList = {})

C15_Witness ==
  /\ props["root"].enter = <<" ", "a", " ", " ">>
  /\ inst["root"].callbacks = <<"onEnter">>
  /\ inst["root"].classList = {<<"a">>}

\* C16: useIsInitialRender returns true on the first render of an instance
\* and false on every later one, whether the mount effect ran on its own
\* before the later render or is run on the way into it; the ref is true
\* exactly until the effect has run; and the isInitialRender an instance with
\* an explicit show publishes is true exactly for its first render.
C16_InitialRenderOnlyFirst ==
  \A i \in Inst :
    LET s == inst[i] IN
      s.mounted =>
        /\ s.renders >= 1
        /\ s.returned <=> (s.renders = 1)
        /\ s.isInitialRender <=> s.effectPending
        /\ s.effectPending => s.renders = 1
        /\ props[i].show # "undefined" =>
             (s.provided.isInitialRender <=> (s.renders = 1))

C16_Witness ==
  /\ nestedKind = "child"
  /\ inst["root"].renders = 2
  /\ ~inst["root"].returned
  /\ ~inst["root"].provided.isInitialRender
  /\ inst["nested"].mounted
  /\ inst["nested"].renders = 1
  /\ inst["nested"].returned
  /\ inst["nested"].effectPending

\* C17 (as stated): without unmountOnExit the node of an instance has the
\* inline display 'none' exactly in the hidden phase, an instance mounted
\* with show=true and no appear included.
C17_HiddenIffDisplayNone ==
  \A i \in Inst :
    (HasNode(inst[i]) /\ ~props[i].unmountOnExit) =>
      ((inst[i].display = "none") <=> (Phase(inst[i]) = "hidden"))

AllTokens(p) == UNION {Tokens(Groups(p)[g]) : g \in 1..6}
AtRest(s) ==
  /\ HasNode(s)
  /\ s.nextCallback = "none"
  /\ ~s.pendingUnmount
  /\ Phase(s) \in {"shown", "hidden"}

\* C18 (as stated): whenever an instance is at rest in the shown or hidden
\* phase, after any sequence of show toggles, none of the tokens of its six
\* class groups is on the class list of its node.
C18_NoTokensAtRest ==
  \A i \in Inst :
    AtRest(inst[i]) => (inst[i].classList \cap AllTokens(props[i]) = {})

====
